---------------------------- MODULE Spec2Model ----------------------------
(***************************************************************************)
(* State-machine model of veo-backend: registration, password login, magic  *)
(* links, sessions and logout (apps/authentication/views.py,               *)
(* serializers.py, models.py), the phone verification service              *)
(* (apps/authentication/services.py), instances, their members and their   *)
(* business hours (apps/instances), menus, sections and items (apps/menus),*)
(* support tickets (apps/support) and the deletion of users.               *)
(*                                                                         *)
(* Handlers are single steps where requests are taken one at a time; the    *)
(* handlers whose interleavings are examined are split at their database    *)
(* statements, each of which commits on its own.                            *)
(*                                                                         *)
(* Time is counted in ticks, TicksPerSecond ticks to the second, so that    *)
(* the truncation int(total_seconds()) of the cooldown code is visible.     *)
(* The clock is observed at the instants of a finite set.                   *)
(***************************************************************************)
EXTENDS Integers, Sequences, FiniteSets, TLC

VARIABLES
    now,        \* timezone.now(), in ticks
    users,      \* table users: canonical email -> row (exists = FALSE: no row)
    links,      \* table magic_links: sequence of rows, the token is the index
    sessions,   \* table user_sessions: sequence of rows, the id is the index
    issued,     \* issued[i]: the credentials response of the call that created session i
    reqs,       \* verify-magic-link requests in flight: worker -> [pc, token]
    pv,         \* table phone_verifications: canonical email -> row (exists = FALSE: no row)
    response,   \* the response of the last handled request
    verifications, \* table phone_verifications as rows [user, row], for interleaved requests
    cvs,        \* create_verification calls in flight: worker -> [pc, user, phone, code]
    instances,  \* table instances: sequence of rows, the id is the index
    members,    \* table instance_members: set of rows [instance, user, role, is_active]
    menus,      \* table menus: sequence of rows, the id is the index
    sections,   \* table menu_sections: sequence of rows, the id is the index
    items,      \* table menu_items: sequence of rows, the id is the index
    creates,    \* instance creations in flight: worker -> [pc, user, name, slug, counter]
    tickets,    \* table support_tickets: sequence of rows, oldest first
    tks,        \* ticket creations in flight: worker -> [pc, user, instance, number]
    hours,      \* table business_hours: set of rows [instance, day_of_week, opening_time]
    confs,      \* code confirmations in flight: worker -> [pc, user, code, row]
    guesses     \* issued code [user, verification_code, created_at] -> the number of
                \* wrong codes compared with it and answered 'Invalid verification code'

upsertVars == <<verifications, cvs>>
tenantVars == <<instances, members, menus, sections, items, creates>>
otherVars == <<tickets, tks, hours, confs, guesses>>
vars == <<now, users, links, sessions, issued, reqs, pv, response, upsertVars, tenantVars,
          otherVars>>

---------------------------------------------------------------------------
(* Bounds of the model *)

TicksPerSecond == 2
MaxLinks == 2
MaxSessions == 3

(* Program constants *)

MagicLinkMinutes == 15
MinPasswordLength == 6
CooldownMinutes == 10
CodeExpiryMinutes == 10
DefaultMaxAttempts == 3
MinPhoneDigits == 10

Seconds(s) == s * TicksPerSecond
Minutes(m) == Seconds(m * 60)

---------------------------------------------------------------------------
(* Inputs *)

\* Canonical (lower-cased) emails are the user keys.
Emails == {"a@x.com", "b@x.com"}
RawEmails == {"a@x.com", "A@x.com", "b@x.com"}

\* str.lower() on the emails of the model
lower(e) == IF e = "A@x.com" THEN "a@x.com" ELSE e

Passwords == {"secret1", "abc"}
PasswordLength(p) == IF p = "abc" THEN 3 ELSE 7

Workers == {1, 2}

---------------------------------------------------------------------------
(* rest_framework_simplejwt: RefreshToken.for_user(user).access_token is a   *)
(* property that builds a new AccessToken, with a fresh jti, at every        *)
(* evaluation.  A token is named by the call that built it and by the        *)
(* ordinal of the evaluation inside that call.  The clock of the model stays *)
(* below the 60 minutes of ACCESS_TOKEN_LIFETIME, so no token expires.       *)
access_token(user, call, nth) == [user |-> user, call |-> call, nth |-> nth]

\* JWTAuthentication: a signed token of an existing, active user
authenticated(tok) ==
    /\ tok.user \in Emails
    /\ users[tok.user].exists
    /\ users[tok.user].is_active

---------------------------------------------------------------------------
(* Models *)

NoUser == [exists |-> FALSE, password |-> "", is_active |-> FALSE,
           phone |-> <<>>, is_phone_verified |-> FALSE]

\* Mutants of MagicLink.is_valid: the used flag, or the expiry, is not checked.
MagicLink_is_valid_ignoring_used(link) ==
    IF now > link.expires_at THEN FALSE ELSE TRUE

MagicLink_is_valid_ignoring_expiry(link) ==
    IF link.is_used THEN FALSE ELSE TRUE

\* MagicLink.is_valid
MagicLink_is_valid(link) ==
    IF link.is_used THEN FALSE
    ELSE IF now > link.expires_at THEN FALSE
    ELSE TRUE

\* UserSession.objects.create(user=..., token=..., is_active defaults to True),
\* followed by the response that hands the access token `access` to the caller;
\* link is the magic link redeemed (0: none).
UserSession_create(user, token, access, op, link) ==
    /\ sessions' = Append(sessions, [user |-> user, token |-> token, is_active |-> TRUE])
    /\ issued' = Append(issued, [access |-> access, op |-> op, link |-> link])

\* Responses: echo is the verification code a confirm request carried.
Resp(op, ok, error, remaining, active, can_send, echo) ==
    [op |-> op, ok |-> ok, error |-> error, cooldown_remaining |-> remaining,
     cooldown_active |-> active, can_send |-> can_send, echo |-> echo]
Ok(op) == Resp(op, TRUE, "", 0, FALSE, FALSE, "")
Err(op, e) == Resp(op, FALSE, e, 0, FALSE, FALSE, "")

---------------------------------------------------------------------------
(* UserRegistrationSerializer *)

\* Mutant of validate_email: the email is compared as typed.
register_email_taken_as_typed(raw) == raw \in Emails /\ users[raw].exists

\* validate_email: the lower-cased email must not be taken
register_email_taken(raw) == users[lower(raw)].exists

\* value.replace(' ', '')
remove_spaces(phone) == SelectSeq(phone, LAMBDA c : c # " ")

\* validate_phone: a non-empty phone, spaces removed, must not be a user's
register_phone_taken(phone) ==
    /\ phone # <<>>
    /\ \E u \in Emails : users[u].exists /\ users[u].phone = remove_spaces(phone)

\* validate_phone returns the cleaned phone (the value itself when empty)
register_cleaned_phone(phone) == IF phone # <<>> THEN remove_spaces(phone) ELSE phone

\* AuthViewSet.register
register(raw, password, phone) ==
    /\ Len(sessions) < MaxSessions
    /\ IF register_email_taken(raw)
         THEN /\ response' = Err("register", "email_exists")
              /\ UNCHANGED <<users, sessions, issued>>
       ELSE IF PasswordLength(password) < MinPasswordLength
         THEN /\ response' = Err("register", "password_too_short")
              /\ UNCHANGED <<users, sessions, issued>>
       ELSE IF register_phone_taken(phone)
         THEN /\ response' = Err("register", "phone_exists")
              /\ UNCHANGED <<users, sessions, issued>>
       ELSE LET u == lower(raw)
                call == Len(sessions) + 1
                access == access_token(u, call, 1)
            IN /\ users' = [users EXCEPT ![u] =
                               [exists |-> TRUE, password |-> password, is_active |-> TRUE,
                                phone |-> register_cleaned_phone(phone),
                                is_phone_verified |-> FALSE]]
               /\ UserSession_create(u, access, access, "register", 0)
               /\ response' = Ok("register")
    /\ UNCHANGED <<now, links, reqs, pv, upsertVars, tenantVars, otherVars>>

---------------------------------------------------------------------------
(* LoginSerializer.validate: authenticate() fails for a missing user, a      *)
(* wrong password and a deactivated user alike.                              *)
login_authenticate(raw, password) ==
    /\ users[lower(raw)].exists
    /\ users[lower(raw)].password = password
    /\ users[lower(raw)].is_active

\* AuthViewSet.login: the session stores one evaluation of
\* refresh.access_token, the response carries another.
login(raw, password) ==
    /\ Len(sessions) < MaxSessions
    /\ IF ~login_authenticate(raw, password)
         THEN /\ response' = Err("login", "invalid_credentials")
              /\ UNCHANGED <<sessions, issued>>
       ELSE LET u == lower(raw)
                call == Len(sessions) + 1
            IN /\ UserSession_create(u, access_token(u, call, 1), access_token(u, call, 2),
                                     "login", 0)
               /\ response' = Ok("login")
    /\ UNCHANGED <<now, users, links, reqs, pv, upsertVars, tenantVars, otherVars>>

---------------------------------------------------------------------------
(* MagicLinkRequestSerializer.validate_email: a user row with that email     *)
(* exists (is_active is not read).                                           *)
request_link_email_known(raw) == users[lower(raw)].exists

\* AuthViewSet.request_magic_link: the row is created before send_mail, which
\* raises on failure (fail_silently=False).
request_magic_link(raw, mailOk) ==
    /\ Len(links) < MaxLinks
    /\ IF ~request_link_email_known(raw)
         THEN /\ response' = Err("request_magic_link", "no_account")
              /\ UNCHANGED links
       ELSE /\ links' = Append(links, [user |-> lower(raw),
                                       expires_at |-> now + Minutes(MagicLinkMinutes),
                                       is_used |-> FALSE])
            /\ response' = IF mailOk THEN Ok("request_magic_link")
                           ELSE Err("request_magic_link", "unhandled_exception")
    /\ UNCHANGED <<now, users, sessions, issued, reqs, pv, upsertVars, tenantVars, otherVars>>

---------------------------------------------------------------------------
(* AuthViewSet.verify_magic_link, in the two steps between which another     *)
(* request can run: the serializer's validation of the token, then the       *)
(* write of is_used and the creation of the session.                         *)

\* MagicLinkVerifySerializer.validate_token
validate_token(tok) ==
    IF tok \notin 1..Len(links) THEN "invalid_token"
    ELSE IF ~MagicLink_is_valid(links[tok]) THEN "expired_or_used"
    ELSE "ok"

verify_magic_link_validate(w, tok) ==
    /\ reqs[w].pc = "idle"
    /\ IF validate_token(tok) # "ok"
         THEN /\ response' = Err("verify_magic_link", validate_token(tok))
              /\ UNCHANGED reqs
       ELSE /\ reqs' = [reqs EXCEPT ![w] = [pc |-> "validated", token |-> tok]]
            /\ UNCHANGED response
    /\ UNCHANGED <<now, users, links, sessions, issued, pv, upsertVars, tenantVars, otherVars>>

verify_magic_link_redeem(w) ==
    /\ reqs[w].pc = "validated"
    /\ Len(sessions) < MaxSessions
    /\ LET tok == reqs[w].token
           u == links[tok].user
           call == Len(sessions) + 1
       IN /\ links' = [links EXCEPT ![tok].is_used = TRUE]
          /\ UserSession_create(u, access_token(u, call, 1), access_token(u, call, 2),
                                "verify_magic_link", tok)
    /\ reqs' = [reqs EXCEPT ![w] = [pc |-> "idle", token |-> 0]]
    /\ response' = Ok("verify_magic_link")
    /\ UNCHANGED <<now, users, pv, upsertVars, tenantVars, otherVars>>

---------------------------------------------------------------------------
(* AuthViewSet.logout *)

\* the rows the filter(user=request.user, token=token, is_active=True) selects
logout_matches(tok, i) ==
    /\ sessions[i].user = tok.user
    /\ sessions[i].token = tok
    /\ sessions[i].is_active

logout(tok) ==
    /\ authenticated(tok)
    /\ sessions' = [i \in 1..Len(sessions) |->
                      IF logout_matches(tok, i)
                      THEN [sessions[i] EXCEPT !.is_active = FALSE]
                      ELSE sessions[i]]
    /\ response' = Ok("logout")
    /\ UNCHANGED <<now, users, links, issued, reqs, pv, upsertVars, tenantVars, otherVars>>

\* The tokens a client can present: those returned by a response and those
\* listed by GET /api/users/sessions/ (UserSessionSerializer exposes token).
KnownTokens == {issued[i].access : i \in 1..Len(issued)} \cup
               {sessions[i].token : i \in 1..Len(sessions)}

---------------------------------------------------------------------------
(* UserAdmin: the is_active flag is editable in the admin site. *)
admin_set_active(u, flag) ==
    /\ users[u].exists
    /\ users[u].is_active # flag
    /\ users' = [users EXCEPT ![u].is_active = flag]
    /\ UNCHANGED <<now, links, sessions, issued, reqs, pv, response, upsertVars, tenantVars, otherVars>>

---------------------------------------------------------------------------
(* The clock *)

AuthInstants == {0, Minutes(MagicLinkMinutes), Minutes(MagicLinkMinutes) + 1}

TickAuth == /\ \E t \in AuthInstants : t > now /\ now' = t
            /\ UNCHANGED <<users, links, sessions, issued, reqs, pv, response, upsertVars, tenantVars, otherVars>>

---------------------------------------------------------------------------
(* Phone verification *)

Digits == {"0", "1", "2", "3", "4", "5", "6", "7", "8", "9"}

\* "+15550001111", "1 555-000-1111", "+15550002222", "55501"
PhoneA == <<"+", "1", "5", "5", "5", "0", "0", "0", "1", "1", "1", "1">>
PhoneATyped == <<"1", " ", "5", "5", "5", "-", "0", "0", "0", "-", "1", "1", "1", "1">>
PhoneB == <<"+", "1", "5", "5", "5", "0", "0", "0", "2", "2", "2", "2">>
PhoneShort == <<"5", "5", "5", "0", "1">>
RawPhones == {PhoneA, PhoneATyped, PhoneB, PhoneShort}

\* re.sub(r'[^\d+]', '', s)
keep_digits_and_plus(s) == SelectSeq(s, LAMBDA c : c \in Digits \cup {"+"})

\* re.sub(r'[^\d]', '', s)
digits_only(s) == SelectSeq(s, LAMBDA c : c \in Digits)

\* prepend '+' unless cleaned.startswith('+')
with_plus(cleaned) ==
    IF Len(cleaned) > 0 /\ cleaned[1] = "+" THEN cleaned ELSE <<"+">> \o cleaned

\* PhoneVerificationRequestSerializer.validate_phone_number
validate_phone_number(value) ==
    LET cleaned == with_plus(keep_digits_and_plus(remove_spaces(value)))
    IN [ok |-> Len(digits_only(cleaned)) >= MinPhoneDigits, cleaned |-> cleaned]

\* PhoneService.normalize_phone_number
normalize_phone_number(phone_number) == with_plus(keep_digits_and_plus(phone_number))

\* The codes generate_verification_code draws and a client submits; "12345" is
\* refused by PhoneVerificationConfirmSerializer for its length.
Codes == {"111111", "222222"}
SubmittedCodes == Codes \cup {"12345"}
CodeLength(c) == IF c = "12345" THEN 5 ELSE 6
CodeLen == 6

\* The users who ask for a phone verification, and the phones given at
\* registration, in the phone specification.
PhoneClients == {"a@x.com"}
PhoneRegPhones == {<<>>, PhoneB}

Null == -1

NoPv == [exists |-> FALSE, phone_number |-> <<>>, verification_code |-> "",
         created_at |-> 0, expires_at |-> 0, is_verified |-> FALSE,
         verified_at |-> Null, attempts |-> 0, max_attempts |-> 0]

\* Mutant of PhoneVerification.is_valid: the attempt counter is not checked.
PhoneVerification_is_valid_ignoring_attempts(v) ==
    IF v.is_verified THEN FALSE
    ELSE IF now > v.expires_at THEN FALSE
    ELSE TRUE

\* PhoneVerification.is_valid
PhoneVerification_is_valid(v) ==
    IF v.is_verified THEN FALSE
    ELSE IF now > v.expires_at THEN FALSE
    ELSE IF v.attempts >= v.max_attempts THEN FALSE
    ELSE TRUE

\* PhoneVerification.verify_code: the result and the row it saves
PhoneVerification_verify_code(v, code) ==
    IF ~PhoneVerification_is_valid(v) THEN [result |-> FALSE, row |-> v]
    ELSE IF v.verification_code = code
      THEN [result |-> TRUE, row |-> [v EXCEPT !.is_verified = TRUE, !.verified_at = now]]
    ELSE [result |-> FALSE, row |-> [v EXCEPT !.attempts = v.attempts + 1]]

\* create_verification: the phone number belongs to another user
phone_registered_to_other(u, phone_number) ==
    \E o \in Emails \ {u} : users[o].exists /\ users[o].phone = phone_number

\* (created_at + timedelta(minutes=cooldown_minutes) - timezone.now()), in ticks
time_remaining(v) == v.created_at + Minutes(CooldownMinutes) - now

\* int(time_remaining): total_seconds() truncated, for a positive value
whole_seconds(ticks) == ticks \div TicksPerSecond

\* Mutant of the update branch: the attempt counter of the row is kept.
upserted_row_keeping_attempts(old, normalized_phone, code) ==
    IF old.exists
    THEN [old EXCEPT !.phone_number = normalized_phone,
                     !.verification_code = code,
                     !.expires_at = now + Minutes(CodeExpiryMinutes),
                     !.is_verified = FALSE,
                     !.created_at = now]
    ELSE [exists |-> TRUE, phone_number |-> normalized_phone, verification_code |-> code,
          created_at |-> now, expires_at |-> now + Minutes(CodeExpiryMinutes),
          is_verified |-> FALSE, verified_at |-> Null, attempts |-> 0,
          max_attempts |-> DefaultMaxAttempts]

\* create_verification: the row written by get_or_create and the update branch
upserted_row(old, normalized_phone, code) ==
    IF old.exists
    THEN [old EXCEPT !.phone_number = normalized_phone,
                     !.verification_code = code,
                     !.expires_at = now + Minutes(CodeExpiryMinutes),
                     !.is_verified = FALSE,
                     !.attempts = 0,
                     !.created_at = now]
    ELSE [exists |-> TRUE, phone_number |-> normalized_phone, verification_code |-> code,
          created_at |-> now, expires_at |-> now + Minutes(CodeExpiryMinutes),
          is_verified |-> FALSE, verified_at |-> Null, attempts |-> 0,
          max_attempts |-> DefaultMaxAttempts]

\* Mutant of create_verification: a failed SMS dispatch is reported as a failure.
create_verification_result_failing_with_sms(op, smsOk) ==
    Resp(op, smsOk, IF smsOk THEN "" ELSE "sms_error", 0, FALSE, FALSE, "")

\* create_verification after send_verification_sms: success is returned whether
\* or not the SMS went out, the failure adding sms_error to the result.
create_verification_result(op, smsOk) ==
    Resp(op, TRUE, IF smsOk THEN "" ELSE "sms_error", 0, FALSE, FALSE, "")

\* AuthViewSet.request_phone_verification with PhoneService.create_verification;
\* code is the generated code, smsOk the outcome of the SMS dispatch.
request_phone_verification(u, raw, code, smsOk) ==
    /\ authenticated(access_token(u, 0, 0))
    /\ LET v == validate_phone_number(raw)
           op == "request_phone_verification"
       IN IF ~v.ok
            THEN /\ response' = Err(op, "invalid_phone")
                 /\ UNCHANGED pv
          ELSE IF phone_registered_to_other(u, v.cleaned)
            THEN /\ response' = Err(op, "phone_registered")
                 /\ UNCHANGED pv
          ELSE IF pv[u].exists /\ time_remaining(pv[u]) > 0
            THEN /\ response' = Resp(op, FALSE, "cooldown",
                                     whole_seconds(time_remaining(pv[u])), FALSE, FALSE, "")
                 /\ UNCHANGED pv
          ELSE /\ pv' = [pv EXCEPT ![u] =
                            upserted_row(pv[u], normalize_phone_number(v.cleaned), code)]
               /\ response' = create_verification_result(op, smsOk)
    /\ UNCHANGED <<now, users, links, sessions, issued, reqs, upsertVars, tenantVars, otherVars>>

\* Mutant of the expiry test of verify_code_for_user: <= for <.
code_has_expired_at_expiry(v) == v.expires_at <= now

\* verify_code_for_user: verification.expires_at < timezone.now()
code_has_expired(v) == v.expires_at < now

\* Mutant of the user update: the phone number is not propagated.
confirmed_user_without_phone(user, v) == [user EXCEPT !.is_phone_verified = TRUE]

\* verify_code_for_user: the user row saved after a match
confirmed_user(user, v) ==
    [user EXCEPT !.phone = v.phone_number, !.is_phone_verified = TRUE]

\* AuthViewSet.confirm_phone_verification with PhoneService.verify_code_for_user
confirm_phone_verification(u, code) ==
    /\ authenticated(access_token(u, 0, 0))
    /\ LET op == "confirm_phone_verification"
           fail(e) == Resp(op, FALSE, e, 0, FALSE, FALSE, code)
           verdict == PhoneVerification_verify_code(pv[u], code)
       IN IF CodeLength(code) # CodeLen
            THEN response' = fail("invalid_format") /\ UNCHANGED <<pv, users>>
          ELSE IF ~pv[u].exists
            THEN response' = fail("no_verification") /\ UNCHANGED <<pv, users>>
          ELSE IF pv[u].is_verified
            THEN response' = fail("already_used") /\ UNCHANGED <<pv, users>>
          ELSE IF code_has_expired(pv[u])
            THEN response' = fail("expired") /\ UNCHANGED <<pv, users>>
          ELSE IF verdict.result
            THEN /\ pv' = [pv EXCEPT ![u] = verdict.row]
                 /\ users' = [users EXCEPT ![u] = confirmed_user(users[u], verdict.row)]
                 /\ response' = Resp(op, TRUE, "", 0, FALSE, FALSE, code)
          ELSE /\ pv' = [pv EXCEPT ![u] = verdict.row]
               /\ response' = fail("invalid_code")
               /\ UNCHANGED users
    /\ UNCHANGED <<now, links, sessions, issued, reqs, upsertVars, tenantVars, otherVars>>

\* AuthViewSet.phone_verification_cooldown
phone_verification_cooldown(u) ==
    /\ authenticated(access_token(u, 0, 0))
    /\ LET op == "phone_verification_cooldown"
       IN IF ~pv[u].exists
            THEN /\ response' = Resp(op, TRUE, "", 0, FALSE, TRUE, "")
                 /\ UNCHANGED pv
          ELSE /\ pv' = IF pv[u].expires_at < now /\ ~pv[u].is_verified
                           THEN [pv EXCEPT ![u].is_verified = TRUE]
                         ELSE pv
               /\ response' = IF time_remaining(pv[u]) > 0
                                 THEN Resp(op, TRUE, "", whole_seconds(time_remaining(pv[u])),
                                           TRUE, FALSE, "")
                               ELSE Resp(op, TRUE, "", 0, FALSE, TRUE, "")
    /\ UNCHANGED <<now, users, links, sessions, issued, reqs, upsertVars, tenantVars, otherVars>>

\* User.phone: CharField(max_length=20)
PhoneMaxLength == 20

\* UserViewSet.update_profile with UserProfileUpdateSerializer, for a request
\* that carries the field phone: the value is stored as typed, and no other
\* column of the user changes.
update_profile(u, phone) ==
    /\ authenticated(access_token(u, 0, 0))
    /\ IF Len(phone) > PhoneMaxLength
         THEN response' = Err("update_profile", "invalid_phone") /\ UNCHANGED users
       ELSE /\ users' = [users EXCEPT ![u].phone = phone]
            /\ response' = Ok("update_profile")
    /\ UNCHANGED <<now, links, sessions, issued, reqs, pv, upsertVars, tenantVars, otherVars>>

PhoneInstants == {0, Minutes(CooldownMinutes) - 1, Minutes(CooldownMinutes),
                  Minutes(CooldownMinutes) + 1}

TickPhone == /\ \E t \in PhoneInstants : t > now /\ now' = t
             /\ UNCHANGED <<users, links, sessions, issued, reqs, pv, response, upsertVars, tenantVars, otherVars>>

---------------------------------------------------------------------------
(* PhoneService.create_verification, statement by statement: every query is  *)
(* a transaction of its own (no ATOMIC_REQUESTS, no transaction.atomic), and *)
(* phone_verifications has no unique constraint on user.                     *)

\* PhoneVerification.objects.filter(user=user): the ids of the user's rows
verifications_of(u) == {i \in 1..Len(verifications) : verifications[i].user = u}

IdleCv == [pc |-> "idle", user |-> "", phone |-> <<>>, code |-> ""]

\* The request up to PhoneVerification.objects.get(user=user) and the cooldown
\* test; two rows or more make get raise MultipleObjectsReturned.
create_verification_check(w, u, raw, code) ==
    /\ cvs[w].pc = "idle"
    /\ authenticated(access_token(u, 0, 0))
    /\ LET v == validate_phone_number(raw)
           op == "request_phone_verification"
           found == verifications_of(u)
           proceed == /\ cvs' = [cvs EXCEPT ![w] =
                                   [pc |-> "get_or_create", user |-> u,
                                    phone |-> normalize_phone_number(v.cleaned),
                                    code |-> code]]
                      /\ UNCHANGED response
       IN IF ~v.ok
            THEN response' = Err(op, "invalid_phone") /\ UNCHANGED cvs
          ELSE IF phone_registered_to_other(u, v.cleaned)
            THEN response' = Err(op, "phone_registered") /\ UNCHANGED cvs
          ELSE IF Cardinality(found) > 1
            THEN response' = Err(op, "multiple_objects_returned") /\ UNCHANGED cvs
          ELSE IF found = {}
            THEN proceed
          ELSE LET row == verifications[CHOOSE i \in found : TRUE].row
               IN IF time_remaining(row) > 0
                    THEN /\ response' = Resp(op, FALSE, "cooldown",
                                             whole_seconds(time_remaining(row)),
                                             FALSE, FALSE, "")
                         /\ UNCHANGED cvs
                  ELSE proceed
    /\ UNCHANGED <<now, users, links, sessions, issued, reqs, pv, verifications, tenantVars, otherVars>>

\* get_or_create: the lookup. A row found is updated and saved and the SMS is
\* sent; no row leads on to the INSERT.
create_verification_get(w, smsOk) ==
    /\ cvs[w].pc = "get_or_create"
    /\ LET op == "request_phone_verification"
           found == verifications_of(cvs[w].user)
       IN IF found = {}
            THEN /\ cvs' = [cvs EXCEPT ![w].pc = "create"]
                 /\ UNCHANGED <<verifications, response>>
          ELSE IF Cardinality(found) > 1
            THEN /\ response' = Err(op, "multiple_objects_returned")
                 /\ cvs' = [cvs EXCEPT ![w] = IdleCv]
                 /\ UNCHANGED verifications
          ELSE LET i == CHOOSE j \in found : TRUE
               IN /\ verifications' =
                        [verifications EXCEPT ![i].row =
                            upserted_row(verifications[i].row, cvs[w].phone, cvs[w].code)]
                  /\ response' = create_verification_result(op, smsOk)
                  /\ cvs' = [cvs EXCEPT ![w] = IdleCv]
    /\ UNCHANGED <<now, users, links, sessions, issued, reqs, pv, tenantVars, otherVars>>

\* get_or_create: the INSERT with the defaults, then the SMS
create_verification_create(w, smsOk) ==
    /\ cvs[w].pc = "create"
    /\ verifications' = Append(verifications,
                               [user |-> cvs[w].user,
                                row |-> upserted_row(NoPv, cvs[w].phone, cvs[w].code)])
    /\ response' = create_verification_result("request_phone_verification", smsOk)
    /\ cvs' = [cvs EXCEPT ![w] = IdleCv]
    /\ UNCHANGED <<now, users, links, sessions, issued, reqs, pv, tenantVars, otherVars>>

---------------------------------------------------------------------------
(* PhoneService.verify_code_for_user, statement by statement: the row is     *)
(* read into the request's own object, tested and changed there, and         *)
(* written back whole by save().                                             *)

IdleConf == [pc |-> "idle", user |-> "", code |-> "", row |-> NoPv, result |-> FALSE]

\* The code a row carries, as issued: whose it is, its digits and its time
issued_code(u, v) ==
    [user |-> u, verification_code |-> v.verification_code, created_at |-> v.created_at]

\* The tally g with one more for key
counted(g, key) ==
    IF key \in DOMAIN g THEN [g EXCEPT ![key] = @ + 1] ELSE g @@ (key :> 1)

\* confirm_phone_verification up to the save() of verify_code: the SELECT of
\* the row, and the tests made on the object read
confirm_read(w, u, code) ==
    /\ confs[w].pc = "idle"
    /\ authenticated(access_token(u, 0, 0))
    /\ LET op == "confirm_phone_verification"
           fail(e) == Resp(op, FALSE, e, 0, FALSE, FALSE, code)
           verdict == PhoneVerification_verify_code(pv[u], code)
       IN IF CodeLength(code) # CodeLen
            THEN response' = fail("invalid_format") /\ UNCHANGED confs
          ELSE IF ~pv[u].exists
            THEN response' = fail("no_verification") /\ UNCHANGED confs
          ELSE IF pv[u].is_verified
            THEN response' = fail("already_used") /\ UNCHANGED confs
          ELSE IF code_has_expired(pv[u])
            THEN response' = fail("expired") /\ UNCHANGED confs
          ELSE IF ~PhoneVerification_is_valid(pv[u])
            THEN response' = fail("invalid_code") /\ UNCHANGED confs
          ELSE /\ confs' = [confs EXCEPT ![w] = [pc |-> "save", user |-> u, code |-> code,
                                                 row |-> verdict.row,
                                                 result |-> verdict.result]]
               /\ UNCHANGED response
    /\ UNCHANGED <<now, users, links, sessions, issued, reqs, pv, upsertVars, tenantVars,
                   tickets, tks, hours, guesses>>

\* PhoneVerification.verify_code: self.save(), the UPDATE of every column
\* from the object read; a wrong code is answered here.
confirm_save(w) ==
    /\ confs[w].pc = "save"
    /\ pv' = [pv EXCEPT ![confs[w].user] = confs[w].row]
    /\ IF confs[w].result
         THEN /\ confs' = [confs EXCEPT ![w].pc = "user"]
              /\ UNCHANGED <<response, guesses>>
       ELSE /\ confs' = [confs EXCEPT ![w] = IdleConf]
            /\ guesses' = counted(guesses, issued_code(confs[w].user, confs[w].row))
            /\ response' = Resp("confirm_phone_verification", FALSE, "invalid_code", 0,
                                FALSE, FALSE, confs[w].code)
    /\ UNCHANGED <<now, users, links, sessions, issued, reqs, upsertVars, tenantVars,
                   tickets, tks, hours>>

\* verify_code_for_user after a match: verification.user.save()
confirm_user(w) ==
    /\ confs[w].pc = "user"
    /\ users' = [users EXCEPT ![confs[w].user] = confirmed_user(@, confs[w].row)]
    /\ response' = Resp("confirm_phone_verification", TRUE, "", 0, FALSE, FALSE,
                        confs[w].code)
    /\ confs' = [confs EXCEPT ![w] = IdleConf]
    /\ UNCHANGED <<now, links, sessions, issued, reqs, pv, upsertVars, tenantVars,
                   tickets, tks, hours, guesses>>

---------------------------------------------------------------------------
(* Instances and their members (apps/instances) *)

MaxInstances == 2

Roles == {"owner", "admin", "manager", "staff"}

\* Instance names as typed, word by word
Names == {<<"Cafe", "Luna">>, <<"Cafe", "Luna", "1">>}

\* str.lower() of a word of the names
lower_word(word) ==
    IF word = "Cafe" THEN "cafe" ELSE IF word = "Luna" THEN "luna" ELSE word

\* django.utils.text.slugify: lower-cased words joined by hyphens; a slug is
\* kept as the sequence of its hyphen-separated parts.
slugify(name) == [k \in 1..Len(name) |-> lower_word(name[k])]

\* f"{base_slug}-{counter}"
suffixed(base_slug, counter) == Append(base_slug, ToString(counter))

\* Instance.objects.all(): a deleted row stays in the sequence, marked deleted,
\* since ids are never used twice.
Instance_ids == {i \in 1..Len(instances) : ~instances[i].deleted}

\* Instance.objects.filter(slug=slug).exists()
slug_exists(slug) == \E i \in Instance_ids : instances[i].slug = slug

IdleCreate == [pc |-> "idle", user |-> "", name |-> <<>>, slug |-> <<>>,
               counter |-> 0, instance |-> 0]

\* Instance creations that have begun and not yet ended
creating == {w \in DOMAIN creates : creates[w].pc # "idle"}

\* InstanceViewSet.create up to Instance.objects.create: Instance.save starts
\* with slug = base_slug and counter = 1.
create_instance(w, u, name) ==
    /\ creates[w].pc = "idle"
    /\ authenticated(access_token(u, 0, 0))
    /\ Len(instances) + Cardinality(creating) < MaxInstances
    /\ creates' = [creates EXCEPT ![w] =
                      [pc |-> "slug", user |-> u, name |-> name, slug |-> slugify(name),
                       counter |-> 1, instance |-> 0]]
    /\ UNCHANGED <<now, users, links, sessions, issued, reqs, pv, response, upsertVars, otherVars,
                   instances, members, menus, sections, items>>

\* Instance.save: one turn of the loop that looks for a free slug
Instance_save_probe(w) ==
    /\ creates[w].pc = "slug"
    /\ creates' = IF slug_exists(creates[w].slug)
                    THEN [creates EXCEPT
                             ![w].slug = suffixed(slugify(creates[w].name), creates[w].counter),
                             ![w].counter = creates[w].counter + 1]
                  ELSE [creates EXCEPT ![w].pc = "insert"]
    /\ UNCHANGED <<now, users, links, sessions, issued, reqs, pv, response, upsertVars, otherVars,
                   instances, members, menus, sections, items>>

\* Mutant of the INSERT: the table takes a row whatever its slug.
Instance_save_insert_without_unique(w) ==
    /\ creates[w].pc = "insert"
    /\ instances' = Append(instances, [name |-> creates[w].name, slug |-> creates[w].slug,
                                       qr_selected_menu_id |-> 0, deleted |-> FALSE])
    /\ creates' = [creates EXCEPT ![w].pc = "member", ![w].instance = Len(instances) + 1]
    /\ UNCHANGED response
    /\ UNCHANGED <<now, users, links, sessions, issued, reqs, pv, upsertVars, otherVars,
                   members, menus, sections, items>>

\* Instance.save: super().save(), the INSERT. The column slug is unique: a
\* slug taken in the meantime raises IntegrityError and the request ends.
Instance_save_insert(w) ==
    /\ creates[w].pc = "insert"
    /\ IF slug_exists(creates[w].slug)
         THEN /\ response' = Err("create_instance", "integrity_error")
              /\ creates' = [creates EXCEPT ![w] = IdleCreate]
              /\ UNCHANGED instances
       ELSE /\ instances' = Append(instances,
                                   [name |-> creates[w].name, slug |-> creates[w].slug,
                                    qr_selected_menu_id |-> 0, deleted |-> FALSE])
            /\ creates' = [creates EXCEPT ![w].pc = "member",
                                          ![w].instance = Len(instances) + 1]
            /\ UNCHANGED response
    /\ UNCHANGED <<now, users, links, sessions, issued, reqs, pv, upsertVars, otherVars,
                   members, menus, sections, items>>

\* InstanceCreateSerializer.create: InstanceMember.objects.create for the
\* creator; dbOk is whether the INSERT goes through. The except clause prints
\* and re-raises: nothing undoes the instance row.
create_owner_membership(w, dbOk) ==
    /\ creates[w].pc = "member"
    /\ IF dbOk
         THEN /\ members' = members \cup {[instance |-> creates[w].instance,
                                           user |-> creates[w].user,
                                           role |-> "owner", is_active |-> TRUE]}
              /\ response' = Ok("create_instance")
       ELSE /\ response' = Err("create_instance", "membership_failed")
            /\ UNCHANGED members
    /\ creates' = [creates EXCEPT ![w] = IdleCreate]
    /\ UNCHANGED <<now, users, links, sessions, issued, reqs, pv, upsertVars, otherVars,
                   instances, menus, sections, items>>

\* InstanceViewSet.get_queryset with get_object: the instance exists and the
\* caller has an active membership in it
instance_visible(i, u) ==
    /\ i \in Instance_ids
    /\ \E m \in members : m.instance = i /\ m.user = u /\ m.is_active

\* Mutant of the role query: any membership row of the caller will do.
member_with_role_any(i, u, roles) ==
    {m \in members : m.instance = i /\ m.user = u}

\* InstanceMember.objects.filter(instance=i, user=u, role__in=roles)
member_with_role(i, u, roles) ==
    {m \in members : m.instance = i /\ m.user = u /\ m.role \in roles}

\* ChoiceField(choices=['admin', 'manager', 'staff'])
InviteRoles == {"admin", "manager", "staff"}

\* InstanceMemberInviteSerializer.validate: the invited user has a row already
already_member(i, u) == \E m \in members : m.instance = i /\ m.user = u

\* InstanceViewSet.invite_member
invite_member(caller, i, raw, role) ==
    /\ authenticated(access_token(caller, 0, 0))
    /\ LET op == "invite_member"
       IN IF ~instance_visible(i, caller)
            THEN response' = Err(op, "not_found") /\ UNCHANGED members
          ELSE IF member_with_role(i, caller, {"owner", "admin"}) = {}
            THEN response' = Err(op, "forbidden") /\ UNCHANGED members
          ELSE IF role \notin InviteRoles
            THEN response' = Err(op, "invalid_role") /\ UNCHANGED members
          ELSE IF ~users[lower(raw)].exists
            THEN response' = Err(op, "no_user") /\ UNCHANGED members
          ELSE IF already_member(i, lower(raw))
            THEN response' = Err(op, "already_member") /\ UNCHANGED members
          ELSE /\ members' = members \cup {[instance |-> i, user |-> lower(raw),
                                            role |-> role, is_active |-> TRUE]}
               /\ response' = Ok(op)
    /\ UNCHANGED <<now, users, links, sessions, issued, reqs, pv, upsertVars, otherVars,
                   instances, menus, sections, items, creates>>

\* Mutant of remove_member: the owner test is left out.
remove_member_without_owner_test(caller, i, user_id) ==
    /\ authenticated(access_token(caller, 0, 0))
    /\ LET op == "remove_member"
           found == {m \in members : m.instance = i /\ m.user = user_id /\ m.is_active}
       IN IF ~instance_visible(i, caller)
            THEN response' = Err(op, "not_found") /\ UNCHANGED members
          ELSE IF member_with_role(i, caller, {"owner", "admin"}) = {}
            THEN response' = Err(op, "forbidden") /\ UNCHANGED members
          ELSE IF user_id = ""
            THEN response' = Err(op, "user_id_required") /\ UNCHANGED members
          ELSE IF found = {}
            THEN response' = Err(op, "member_not_found") /\ UNCHANGED members
          ELSE LET member == CHOOSE m \in found : TRUE
               IN /\ members' = (members \ {member})
                                   \cup {[member EXCEPT !.is_active = FALSE]}
                  /\ response' = Ok(op)
    /\ UNCHANGED <<now, users, links, sessions, issued, reqs, pv, upsertVars, otherVars,
                   instances, menus, sections, items, creates>>

\* InstanceViewSet.remove_member; user_id "" is a body without user_id
remove_member(caller, i, user_id) ==
    /\ authenticated(access_token(caller, 0, 0))
    /\ LET op == "remove_member"
           found == {m \in members : m.instance = i /\ m.user = user_id /\ m.is_active}
       IN IF ~instance_visible(i, caller)
            THEN response' = Err(op, "not_found") /\ UNCHANGED members
          ELSE IF member_with_role(i, caller, {"owner", "admin"}) = {}
            THEN response' = Err(op, "forbidden") /\ UNCHANGED members
          ELSE IF user_id = ""
            THEN response' = Err(op, "user_id_required") /\ UNCHANGED members
          ELSE IF found = {}
            THEN response' = Err(op, "member_not_found") /\ UNCHANGED members
          ELSE LET member == CHOOSE m \in found : TRUE
               IN IF member.role = "owner"
                    THEN response' = Err(op, "cannot_remove_owner") /\ UNCHANGED members
                  ELSE /\ members' = (members \ {member})
                                        \cup {[member EXCEPT !.is_active = FALSE]}
                       /\ response' = Ok(op)
    /\ UNCHANGED <<now, users, links, sessions, issued, reqs, pv, upsertVars, otherVars,
                   instances, menus, sections, items, creates>>

---------------------------------------------------------------------------
(* Business hours of an instance (InstanceViewSet.business_hours, PUT) *)

MaxEntries == 2

\* BusinessHours.DAY_CHOICES has the days 0..6; the days a client sends
DayChoices == 0..6
Days == {0, 1, 7}
Times == {"09:00", "18:00"}

\* The bodies of a PUT: lists of entries [day_of_week, opening_time]
HoursEntries == [day_of_week : Days, opening_time : Times]
HoursBodies == UNION {[1..n -> HoursEntries] : n \in 1..MaxEntries}

\* BusinessHoursSerializer.is_valid for an entry of instance i: the day is a
\* choice, and (unique_together) no stored row has this instance and day
BusinessHours_is_valid(rows, i, entry) ==
    /\ entry.day_of_week \in DayChoices
    /\ ~\E h \in rows : h.instance = i /\ h.day_of_week = entry.day_of_week

\* The loop of business_hours over the entries from the k-th on, each valid
\* entry being saved at once: the rows stored when the loop ends, and whether
\* it ended without a validation error
RECURSIVE save_hours(_, _, _, _)
save_hours(rows, i, body, k) ==
    IF k > Len(body) THEN [rows |-> rows, ok |-> TRUE]
    ELSE IF ~BusinessHours_is_valid(rows, i, body[k]) THEN [rows |-> rows, ok |-> FALSE]
    ELSE save_hours(rows \cup {[instance |-> i, day_of_week |-> body[k].day_of_week,
                                opening_time |-> body[k].opening_time]},
                    i, body, k + 1)

\* InstanceViewSet.business_hours, PUT: get_object, the role test, the DELETE
\* of the stored hours, then the loop
business_hours(caller, i, body) ==
    /\ authenticated(access_token(caller, 0, 0))
    /\ LET op == "business_hours"
           saved == save_hours({h \in hours : h.instance # i}, i, body, 1)
       IN IF ~instance_visible(i, caller)
            THEN response' = Err(op, "not_found") /\ UNCHANGED hours
          ELSE IF member_with_role(i, caller, {"owner", "admin", "manager"}) = {}
            THEN response' = Err(op, "forbidden") /\ UNCHANGED hours
          ELSE /\ hours' = saved.rows
               /\ response' = IF saved.ok THEN Ok(op) ELSE Err(op, "invalid_entry")
    /\ UNCHANGED <<now, users, links, sessions, issued, reqs, pv, upsertVars, tenantVars,
                   tickets, tks, confs, guesses>>

---------------------------------------------------------------------------
(* Menus, sections and items (apps/menus). A deleted row stays in its        *)
(* sequence, marked deleted, since ids are never used twice.                 *)

MaxMenus == 2
MaxSections == 1
MaxItems == 1

\* Menu.objects.all(), MenuSection.objects.all(), MenuItem.objects.all()
Menu_ids == {m \in 1..Len(menus) : ~menus[m].deleted}
MenuSection_ids == {s \in 1..Len(sections) : ~sections[s].deleted}
MenuItem_ids == {k \in 1..Len(items) : ~items[k].deleted}

\* The instance a section belongs to: section.menu.instance
section_instance(s) == menus[sections[s].menu].instance

\* MenuViewSet.get_queryset with get_object
menu_visible(m, u) == m \in Menu_ids /\ instance_visible(menus[m].instance, u)

\* MenuSectionViewSet.get_queryset with get_object
section_visible(s, u) == s \in MenuSection_ids /\ instance_visible(section_instance(s), u)

\* signals.set_default_qr_menu, run by post_save of a created menu: the menu
\* becomes the instance's QR menu when none is selected (the column
\* qr_selected_menu_id is the one added by instances migration 0002).
set_default_qr_menu(i, m) ==
    IF instances[i].qr_selected_menu_id = 0
      THEN [instances EXCEPT ![i].qr_selected_menu_id = m]
    ELSE instances

\* MenuViewSet.create
create_menu(caller, i) ==
    /\ authenticated(access_token(caller, 0, 0))
    /\ Len(menus) < MaxMenus
    /\ LET op == "create_menu"
       IN IF i \notin Instance_ids
            THEN response' = Err(op, "invalid_instance") /\ UNCHANGED <<menus, instances>>
          ELSE IF member_with_role(i, caller, {"owner", "admin", "manager"}) = {}
            THEN response' = Err(op, "forbidden") /\ UNCHANGED <<menus, instances>>
          ELSE /\ menus' = Append(menus, [instance |-> i, deleted |-> FALSE])
               /\ instances' = set_default_qr_menu(i, Len(menus) + 1)
               /\ response' = Ok(op)
    /\ UNCHANGED <<now, users, links, sessions, issued, reqs, pv, upsertVars, otherVars,
                   members, sections, items, creates>>

\* on_delete=CASCADE from a set of menus to their sections
sections_without(ms) ==
    [s \in 1..Len(sections) |->
        IF sections[s].menu \in ms THEN [sections[s] EXCEPT !.deleted = TRUE]
        ELSE sections[s]]

\* on_delete=CASCADE from a set of sections to their items
items_without(ss) ==
    [k \in 1..Len(items) |->
        IF items[k].section \in ss THEN [items[k] EXCEPT !.deleted = TRUE]
        ELSE items[k]]

\* MenuViewSet.destroy, inherited from ModelViewSet: get_object, then delete
destroy_menu(caller, m) ==
    /\ authenticated(access_token(caller, 0, 0))
    /\ LET op == "destroy_menu"
       IN IF ~menu_visible(m, caller)
            THEN response' = Err(op, "not_found") /\ UNCHANGED <<menus, sections, items>>
          ELSE /\ menus' = [menus EXCEPT ![m].deleted = TRUE]
               /\ sections' = sections_without({m})
               /\ items' = items_without({s \in 1..Len(sections) : sections[s].menu = m})
               /\ response' = Ok(op)
    /\ UNCHANGED <<now, users, links, sessions, issued, reqs, pv, upsertVars, otherVars,
                   instances, members, creates>>

\* MenuSectionViewSet.create
create_section(caller, m) ==
    /\ authenticated(access_token(caller, 0, 0))
    /\ Len(sections) < MaxSections
    /\ LET op == "create_section"
       IN IF m \notin Menu_ids
            THEN response' = Err(op, "invalid_menu") /\ UNCHANGED sections
          ELSE IF member_with_role(menus[m].instance, caller,
                                   {"owner", "admin", "manager"}) = {}
            THEN response' = Err(op, "forbidden") /\ UNCHANGED sections
          ELSE /\ sections' = Append(sections, [menu |-> m, deleted |-> FALSE])
               /\ response' = Ok(op)
    /\ UNCHANGED <<now, users, links, sessions, issued, reqs, pv, upsertVars, otherVars,
                   instances, members, menus, items, creates>>

\* MenuSectionViewSet.destroy, inherited from ModelViewSet
destroy_section(caller, s) ==
    /\ authenticated(access_token(caller, 0, 0))
    /\ LET op == "destroy_section"
       IN IF ~section_visible(s, caller)
            THEN response' = Err(op, "not_found") /\ UNCHANGED <<sections, items>>
          ELSE /\ sections' = [sections EXCEPT ![s].deleted = TRUE]
               /\ items' = items_without({s})
               /\ response' = Ok(op)
    /\ UNCHANGED <<now, users, links, sessions, issued, reqs, pv, upsertVars, otherVars,
                   instances, members, menus, creates>>

\* MenuItemViewSet.create
create_item(caller, s) ==
    /\ authenticated(access_token(caller, 0, 0))
    /\ Len(items) < MaxItems
    /\ LET op == "create_item"
       IN IF s \notin MenuSection_ids
            THEN response' = Err(op, "invalid_section") /\ UNCHANGED items
          ELSE IF member_with_role(section_instance(s), caller, Roles) = {}
            THEN response' = Err(op, "forbidden") /\ UNCHANGED items
          ELSE /\ items' = Append(items, [section |-> s, deleted |-> FALSE])
               /\ response' = Ok(op)
    /\ UNCHANGED <<now, users, links, sessions, issued, reqs, pv, upsertVars, otherVars,
                   instances, members, menus, sections, creates>>

\* The instance an item belongs to: item.section.menu.instance
item_instance(k) == section_instance(items[k].section)

\* MenuItemViewSet.get_queryset with get_object
item_visible(k, u) == k \in MenuItem_ids /\ instance_visible(item_instance(k), u)

\* MenuSectionViewSet.update and partial_update, inherited from ModelViewSet:
\* get_object, then MenuSectionSerializer, whose field menu takes any menu
update_section(caller, s, m) ==
    /\ authenticated(access_token(caller, 0, 0))
    /\ LET op == "update_section"
       IN IF ~section_visible(s, caller)
            THEN response' = Err(op, "not_found") /\ UNCHANGED sections
          ELSE IF m \notin Menu_ids
            THEN response' = Err(op, "invalid_menu") /\ UNCHANGED sections
          ELSE /\ sections' = [sections EXCEPT ![s].menu = m]
               /\ response' = Ok(op)
    /\ UNCHANGED <<now, users, links, sessions, issued, reqs, pv, upsertVars, otherVars,
                   instances, members, menus, items, creates>>

\* MenuItemViewSet.update and partial_update, inherited from ModelViewSet:
\* get_object, then MenuItemSerializer, whose field section takes any section
update_item(caller, k, s) ==
    /\ authenticated(access_token(caller, 0, 0))
    /\ LET op == "update_item"
       IN IF ~item_visible(k, caller)
            THEN response' = Err(op, "not_found") /\ UNCHANGED items
          ELSE IF s \notin MenuSection_ids
            THEN response' = Err(op, "invalid_section") /\ UNCHANGED items
          ELSE /\ items' = [items EXCEPT ![k].section = s]
               /\ response' = Ok(op)
    /\ UNCHANGED <<now, users, links, sessions, issued, reqs, pv, upsertVars, otherVars,
                   instances, members, menus, sections, creates>>

---------------------------------------------------------------------------
(* Support tickets (apps/support). A creation is split at its database       *)
(* statements.                                                               *)

MaxTickets == 2

\* f"TICK-{new_num:04d}": the prefix and the decimal digits, padded to four
format_ticket_number(new_num) ==
    <<"TICK", <<(new_num \div 1000) % 10, (new_num \div 100) % 10,
                (new_num \div 10) % 10, new_num % 10>> >>

\* int(ticket_number.split('-')[1])
parse_ticket_number(ticket_number) ==
    LET d == ticket_number[2]
    IN d[1] * 1000 + d[2] * 100 + d[3] * 10 + d[4]

\* SupportTicket.objects.all(): a deleted row stays in the sequence, marked
\* deleted.
SupportTicket_ids == {k \in 1..Len(tickets) : ~tickets[k].deleted}

\* SupportTicket.objects.filter(ticket_number=n).exists(), the unique column
ticket_number_exists(n) == \E k \in SupportTicket_ids : tickets[k].ticket_number = n

\* SupportTicket.objects.all().order_by('-created_at').first(), 0 for None
last_ticket ==
    IF SupportTicket_ids = {} THEN 0
    ELSE CHOOSE k \in SupportTicket_ids : \A j \in SupportTicket_ids : j <= k

IdleTicket == [pc |-> "idle", user |-> "", instance |-> 0, ticket_number |-> <<>>,
               ticket |-> 0]

\* Ticket creations that have begun and not yet ended
ticketing == {w \in DOMAIN tks : tks[w].pc # "idle"}

\* SupportTicketViewSet.create up to SupportTicket.objects.create: the
\* serializer takes any existing instance.
create_ticket(w, u, i) ==
    /\ tks[w].pc = "idle"
    /\ authenticated(access_token(u, 0, 0))
    /\ Len(tickets) + Cardinality(ticketing) < MaxTickets
    /\ IF i \notin Instance_ids
         THEN response' = Err("create_ticket", "invalid_instance") /\ UNCHANGED tks
       ELSE /\ tks' = [tks EXCEPT ![w] = [pc |-> "number", user |-> u, instance |-> i,
                                          ticket_number |-> <<>>, ticket |-> 0]]
            /\ UNCHANGED response
    /\ UNCHANGED <<now, users, links, sessions, issued, reqs, pv, upsertVars, tenantVars,
                   tickets, hours, confs, guesses>>

\* SupportTicket.save: the number after the one of the last ticket created
SupportTicket_save_number(w) ==
    /\ tks[w].pc = "number"
    /\ LET new_num == IF last_ticket # 0
                        THEN parse_ticket_number(tickets[last_ticket].ticket_number) + 1
                      ELSE 1
       IN tks' = [tks EXCEPT ![w].pc = "insert",
                             ![w].ticket_number = format_ticket_number(new_num)]
    /\ UNCHANGED <<now, users, links, sessions, issued, reqs, pv, response, upsertVars,
                   tenantVars, tickets, hours, confs, guesses>>

\* Mutant of the INSERT: the table takes a row whatever its number.
SupportTicket_save_insert_without_unique(w) ==
    /\ tks[w].pc = "insert"
    /\ tickets' = Append(tickets, [ticket_number |-> tks[w].ticket_number,
                                   instance |-> tks[w].instance, user |-> tks[w].user,
                                   messages |-> 0, deleted |-> FALSE])
    /\ tks' = [tks EXCEPT ![w].pc = "message", ![w].ticket = Len(tickets) + 1]
    /\ UNCHANGED response
    /\ UNCHANGED <<now, users, links, sessions, issued, reqs, pv, upsertVars, tenantVars,
                   hours, confs, guesses>>

\* SupportTicket.save: super().save(), the INSERT. The column ticket_number
\* is unique: a number taken in the meantime raises IntegrityError and the
\* request ends.
SupportTicket_save_insert(w) ==
    /\ tks[w].pc = "insert"
    /\ IF ticket_number_exists(tks[w].ticket_number)
         THEN /\ response' = Err("create_ticket", "integrity_error")
              /\ tks' = [tks EXCEPT ![w] = IdleTicket]
              /\ UNCHANGED tickets
       ELSE /\ tickets' = Append(tickets, [ticket_number |-> tks[w].ticket_number,
                                           instance |-> tks[w].instance,
                                           user |-> tks[w].user, messages |-> 0,
                                           deleted |-> FALSE])
            /\ tks' = [tks EXCEPT ![w].pc = "message", ![w].ticket = Len(tickets) + 1]
            /\ UNCHANGED response
    /\ UNCHANGED <<now, users, links, sessions, issued, reqs, pv, upsertVars, tenantVars,
                   hours, confs, guesses>>

\* SupportTicketCreateSerializer.create: TicketMessage.objects.create with the
\* description, for the ticket just stored
create_ticket_message(w) ==
    /\ tks[w].pc = "message"
    /\ IF tks[w].ticket \in SupportTicket_ids
         THEN /\ tickets' = [tickets EXCEPT ![tks[w].ticket].messages = @ + 1]
              /\ response' = Ok("create_ticket")
       ELSE /\ response' = Err("create_ticket", "integrity_error")
            /\ UNCHANGED tickets
    /\ tks' = [tks EXCEPT ![w] = IdleTicket]
    /\ UNCHANGED <<now, users, links, sessions, issued, reqs, pv, upsertVars, tenantVars,
                   hours, confs, guesses>>

---------------------------------------------------------------------------
(* Deletion of a user (User.delete, as from the admin site): the pre_delete   *)
(* receiver delete_user_instances, then the cascades of the foreign keys.    *)

\* Mutant of the receiver's query: the role of the membership is not tested.
owned_instances_of_any_role(u) ==
    {i \in Instance_ids : \E m \in members : m.instance = i /\ m.user = u}

\* delete_user_instances: Instance.objects.filter(members__user=user,
\* members__role='owner').distinct()
owned_instances(u) ==
    {i \in Instance_ids : \E m \in members : m.instance = i /\ m.user = u /\ m.role = "owner"}

\* A row of a table whose ids are positions, after the deletion of its user
DeletedLink == [user |-> "", expires_at |-> Null, is_used |-> TRUE]
DeletedSession == [user |-> "", token |-> access_token("", 0, 0), is_active |-> FALSE]

\* User.delete
delete_user(u) ==
    /\ users[u].exists
    /\ LET gone == owned_instances(u)
           gone_menus == {m \in 1..Len(menus) : menus[m].instance \in gone}
           gone_sections == {s \in 1..Len(sections) : sections[s].menu \in gone_menus}
       IN /\ instances' = [i \in 1..Len(instances) |->
                              IF i \in gone THEN [instances[i] EXCEPT !.deleted = TRUE]
                              ELSE instances[i]]
          /\ members' = {m \in members : m.instance \notin gone /\ m.user # u}
          /\ menus' = [m \in 1..Len(menus) |->
                          IF m \in gone_menus THEN [menus[m] EXCEPT !.deleted = TRUE]
                          ELSE menus[m]]
          /\ sections' = sections_without(gone_menus)
          /\ items' = items_without(gone_sections)
          /\ hours' = {h \in hours : h.instance \notin gone}
          /\ tickets' = [k \in 1..Len(tickets) |->
                            IF tickets[k].instance \in gone \/ tickets[k].user = u
                              THEN [tickets[k] EXCEPT !.deleted = TRUE]
                            ELSE tickets[k]]
    /\ users' = [users EXCEPT ![u] = NoUser]
    /\ links' = [k \in 1..Len(links) |->
                    IF links[k].user = u THEN DeletedLink ELSE links[k]]
    /\ sessions' = [k \in 1..Len(sessions) |->
                       IF sessions[k].user = u THEN DeletedSession ELSE sessions[k]]
    /\ pv' = [pv EXCEPT ![u] = NoPv]
    /\ verifications' = SelectSeq(verifications, LAMBDA r : r.user # u)
    /\ response' = Ok("delete_user")
    /\ UNCHANGED <<now, issued, reqs, cvs, creates, tks, confs, guesses>>

---------------------------------------------------------------------------

Init ==
    /\ now = 0
    /\ users = [u \in Emails |-> NoUser]
    /\ links = <<>>
    /\ sessions = <<>>
    /\ issued = <<>>
    /\ reqs = [w \in Workers |-> [pc |-> "idle", token |-> 0]]
    /\ pv = [u \in Emails |-> NoPv]
    /\ response = Ok("none")
    /\ verifications = <<>>
    /\ cvs = [w \in Workers |-> IdleCv]
    /\ instances = <<>>
    /\ members = {}
    /\ menus = <<>>
    /\ sections = <<>>
    /\ items = <<>>
    /\ creates = [w \in Workers |-> IdleCreate]
    /\ tickets = <<>>
    /\ tks = [w \in Workers |-> IdleTicket]
    /\ hours = {}
    /\ confs = [w \in Workers |-> IdleConf]
    /\ guesses = <<>>

RegPhones == {<<>>}

\* Magic links under concurrent redemption and a running clock.
NextLink ==
    \/ \E raw \in RawEmails, p \in Passwords, ph \in RegPhones : register(raw, p, ph)
    \/ \E raw \in RawEmails, mailOk \in BOOLEAN : request_magic_link(raw, mailOk)
    \/ \E w \in Workers, tok \in 1..(MaxLinks + 1) : verify_magic_link_validate(w, tok)
    \/ \E w \in Workers : verify_magic_link_redeem(w)
    \/ \E u \in Emails, flag \in BOOLEAN : admin_set_active(u, flag)
    \/ TickAuth

SpecLink == Init /\ [][NextLink]_vars

\* Sessions: every way to obtain one, and logout; redemptions one at a time.
SessionWorkers == {1}

NextSession ==
    \/ \E raw \in RawEmails, p \in Passwords, ph \in RegPhones : register(raw, p, ph)
    \/ \E raw \in RawEmails, p \in Passwords : login(raw, p)
    \/ \E raw \in RawEmails, mailOk \in BOOLEAN : request_magic_link(raw, mailOk)
    \/ \E w \in SessionWorkers, tok \in 1..(MaxLinks + 1) : verify_magic_link_validate(w, tok)
    \/ \E w \in SessionWorkers : verify_magic_link_redeem(w)
    \/ \E tok \in KnownTokens : logout(tok)
    \/ \E u \in Emails, flag \in BOOLEAN : admin_set_active(u, flag)

SpecSession == Init /\ [][NextSession]_vars

\* Phone verification of registered users under a running clock.
NextPhone ==
    \/ \E raw \in RawEmails, p \in Passwords, ph \in PhoneRegPhones : register(raw, p, ph)
    \/ \E u \in PhoneClients, raw \in RawPhones, code \in Codes, smsOk \in BOOLEAN :
          request_phone_verification(u, raw, code, smsOk)
    \/ \E u \in PhoneClients, code \in SubmittedCodes : confirm_phone_verification(u, code)
    \/ \E u \in PhoneClients : phone_verification_cooldown(u)
    \/ TickPhone

SpecPhone == Init /\ [][NextPhone]_vars

\* Interleaved phone-verification requests of registered users.
UpsertPhones == {PhoneA, PhoneShort}
UpsertInstants == {0, Minutes(CooldownMinutes)}

TickUpsert == /\ \E t \in UpsertInstants : t > now /\ now' = t
              /\ UNCHANGED <<users, links, sessions, issued, reqs, pv, response,
                             upsertVars, tenantVars, otherVars>>

NextUpsert ==
    \/ \E u \in Emails, p \in Passwords : register(u, p, <<>>)
    \/ \E w \in Workers, u \in Emails, raw \in UpsertPhones, code \in Codes :
          create_verification_check(w, u, raw, code)
    \/ \E w \in Workers, smsOk \in BOOLEAN : create_verification_get(w, smsOk)
    \/ \E w \in Workers, smsOk \in BOOLEAN : create_verification_create(w, smsOk)
    \/ TickUpsert

SpecUpsert == Init /\ [][NextUpsert]_vars

\* Interleaved instance creations.
NextCreate ==
    \/ \E u \in Emails, p \in Passwords : register(u, p, <<>>)
    \/ \E w \in Workers, u \in Emails, name \in Names : create_instance(w, u, name)
    \/ \E w \in Workers : Instance_save_probe(w)
    \/ \E w \in Workers : Instance_save_insert(w)
    \/ \E w \in Workers, dbOk \in BOOLEAN : create_owner_membership(w, dbOk)

SpecCreate == Init /\ [][NextCreate]_vars

\* Members of instances, one request at a time.
TenantWorkers == {1}
TenantNames == {<<"Cafe", "Luna">>}
UserIds == Emails \cup {""}
Founders == {"a@x.com"}

NextMembers ==
    \/ \E u \in Emails : register(u, "secret1", <<>>)
    \/ \E w \in TenantWorkers, u \in Founders, name \in TenantNames :
          create_instance(w, u, name)
    \/ \E w \in TenantWorkers : Instance_save_probe(w)
    \/ \E w \in TenantWorkers : Instance_save_insert(w)
    \/ \E w \in TenantWorkers, dbOk \in BOOLEAN : create_owner_membership(w, dbOk)
    \/ \E caller \in Emails, i \in 1..MaxInstances, raw \in RawEmails, role \in Roles :
          invite_member(caller, i, raw, role)
    \/ \E caller \in Emails, i \in 1..MaxInstances, user_id \in UserIds :
          remove_member(caller, i, user_id)

SpecMembers == Init /\ [][NextMembers]_vars

\* Members and menus of instances, one request at a time.

NextTenant ==
    \/ \E u \in Emails : register(u, "secret1", <<>>)
    \/ \E w \in TenantWorkers, u \in Founders, name \in TenantNames :
          create_instance(w, u, name)
    \/ \E w \in TenantWorkers : Instance_save_probe(w)
    \/ \E w \in TenantWorkers : Instance_save_insert(w)
    \/ \E w \in TenantWorkers : create_owner_membership(w, TRUE)
    \/ \E caller \in Emails, i \in 1..MaxInstances, raw \in Emails, role \in Roles :
          invite_member(caller, i, raw, role)
    \/ \E caller \in Emails, i \in 1..MaxInstances, user_id \in UserIds :
          remove_member(caller, i, user_id)
    \/ \E caller \in Emails, i \in 1..MaxInstances : create_menu(caller, i)
    \/ \E caller \in Emails, m \in 1..MaxMenus : destroy_menu(caller, m)
    \/ \E caller \in Emails, m \in 1..MaxMenus : create_section(caller, m)
    \/ \E caller \in Emails, s \in 1..MaxSections : destroy_section(caller, s)
    \/ \E caller \in Emails, s \in 1..MaxSections : create_item(caller, s)

SpecTenant == Init /\ [][NextTenant]_vars

\* Menus of two owners, each with an instance, one request at a time.
NextReparent ==
    \/ \E u \in Emails : register(u, "secret1", <<>>)
    \/ \E w \in TenantWorkers, u \in Emails, name \in TenantNames :
          create_instance(w, u, name)
    \/ \E w \in TenantWorkers : Instance_save_probe(w)
    \/ \E w \in TenantWorkers : Instance_save_insert(w)
    \/ \E w \in TenantWorkers : create_owner_membership(w, TRUE)
    \/ \E caller \in Emails, i \in 1..MaxInstances : create_menu(caller, i)
    \/ \E caller \in Emails, m \in 1..MaxMenus : create_section(caller, m)
    \/ \E caller \in Emails, s \in 1..MaxSections : create_item(caller, s)
    \/ \E caller \in Emails, s \in 1..MaxSections, m \in 1..MaxMenus :
          update_section(caller, s, m)
    \/ \E caller \in Emails, k \in 1..MaxItems, s \in 1..MaxSections :
          update_item(caller, k, s)
    \/ \E caller \in Emails, m \in 1..MaxMenus : destroy_menu(caller, m)

SpecReparent == Init /\ [][NextReparent]_vars

\* Business hours of the founder's instance, one request at a time.
HoursRoles == {"manager", "staff"}

NextHours ==
    \/ \E u \in Emails : register(u, "secret1", <<>>)
    \/ \E w \in TenantWorkers, u \in Founders, name \in TenantNames :
          create_instance(w, u, name)
    \/ \E w \in TenantWorkers : Instance_save_probe(w)
    \/ \E w \in TenantWorkers : Instance_save_insert(w)
    \/ \E w \in TenantWorkers : create_owner_membership(w, TRUE)
    \/ \E caller \in Founders, raw \in Emails, role \in HoursRoles :
          invite_member(caller, 1, raw, role)
    \/ \E caller \in Emails, i \in 1..MaxInstances, body \in HoursBodies :
          business_hours(caller, i, body)

SpecHours == Init /\ [][NextHours]_vars

\* Deletion of users who own and who have joined instances.
DeleteRoles == {"admin"}

NextDelete ==
    \/ \E u \in Emails : register(u, "secret1", <<>>)
    \/ \E w \in TenantWorkers, u \in Emails, name \in TenantNames :
          create_instance(w, u, name)
    \/ \E w \in TenantWorkers : Instance_save_probe(w)
    \/ \E w \in TenantWorkers : Instance_save_insert(w)
    \/ \E w \in TenantWorkers : create_owner_membership(w, TRUE)
    \/ \E caller \in Emails, i \in 1..MaxInstances, raw \in Emails, role \in DeleteRoles :
          invite_member(caller, i, raw, role)
    \/ \E caller \in Founders : create_menu(caller, 1)
    \/ \E u \in Emails : delete_user(u)

SpecDelete == Init /\ [][NextDelete]_vars

\* Interleaved support-ticket creations.
NextTicket ==
    \/ \E u \in Emails : register(u, "secret1", <<>>)
    \/ \E w \in TenantWorkers, u \in Founders, name \in TenantNames :
          create_instance(w, u, name)
    \/ \E w \in TenantWorkers : Instance_save_probe(w)
    \/ \E w \in TenantWorkers : Instance_save_insert(w)
    \/ \E w \in TenantWorkers : create_owner_membership(w, TRUE)
    \/ \E w \in Workers, u \in Emails, i \in 1..MaxInstances : create_ticket(w, u, i)
    \/ \E w \in Workers : SupportTicket_save_number(w)
    \/ \E w \in Workers : SupportTicket_save_insert(w)
    \/ \E w \in Workers : create_ticket_message(w)

SpecTicket == Init /\ [][NextTicket]_vars

\* Phone verification and profile updates of two users, one request at a time.
PhoneLong == PhoneATyped \o PhoneATyped
ProfilePhones == {<<>>, PhoneA, PhoneB, PhoneLong}
OwnedPhones == {PhoneA, PhoneB}

NextProfile ==
    \/ \E u \in Emails : register(u, "secret1", <<>>)
    \/ \E u \in Emails, raw \in OwnedPhones :
          request_phone_verification(u, raw, "111111", TRUE)
    \/ \E u \in Emails, code \in Codes : confirm_phone_verification(u, code)
    \/ \E u \in Emails, phone \in ProfilePhones : update_profile(u, phone)

SpecProfile == Init /\ [][NextProfile]_vars

\* Interleaved confirmations of one user's code.
ConfirmInstants == {0, Minutes(CodeExpiryMinutes)}

TickConfirm == /\ \E t \in ConfirmInstants : t > now /\ now' = t
               /\ UNCHANGED <<users, links, sessions, issued, reqs, pv, response,
                              upsertVars, tenantVars, otherVars>>

NextConfirm ==
    \/ \E u \in PhoneClients : register(u, "secret1", <<>>)
    \/ \E u \in PhoneClients : request_phone_verification(u, PhoneA, "111111", TRUE)
    \/ \E w \in Workers, u \in PhoneClients, code \in SubmittedCodes :
          confirm_read(w, u, code)
    \/ \E w \in Workers : confirm_save(w)
    \/ \E w \in Workers : confirm_user(w)
    \/ TickConfirm

SpecConfirm == Init /\ [][NextConfirm]_vars

---------------------------------------------------------------------------
(* Claims *)

\* C1: once a magic link has been redeemed (its is_used flag is set), every
\* redemption request that arrives with its token afterwards, at any time, is
\* refused by the validation: it gets the error response, is taken no further
\* and creates no session.
C1_RedeemedLinkIsRefused ==
    [][\A w \in Workers, tok \in 1..MaxLinks :
         (tok <= Len(links) /\ links[tok].is_used /\ verify_magic_link_validate(w, tok))
         => /\ response' = Err("verify_magic_link", "expired_or_used")
            /\ reqs' = reqs
            /\ sessions' = sessions
            /\ issued' = issued]_vars

\* C1 witness: a request was refused although no link has expired, so it was
\* refused for a link that had been redeemed.
C1_Witness ==
    /\ response = Err("verify_magic_link", "expired_or_used")
    /\ \E tok \in 1..Len(links) : links[tok].is_used
    /\ \A tok \in 1..Len(links) : now <= links[tok].expires_at
    /\ \A w \in Workers : reqs[w].pc = "idle"

\* The sessions issued by redeeming link tok
RedeemedFrom(tok) ==
    {i \in 1..Len(issued) : issued[i].op = "verify_magic_link" /\ issued[i].link = tok}

\* C2: for one magic-link token at most one redemption succeeds and at most one
\* session is issued from it, under every interleaving of concurrent requests.
C2_AtMostOneRedemption ==
    \A tok \in 1..Len(links) : Cardinality(RedeemedFrom(tok)) <= 1

\* C3: a redemption request that arrives after the link's expires_at is refused
\* whether or not the link has been used, and leaves the link's used flag and
\* the sessions unchanged.
C3_ExpiredLinkIsRefused ==
    [][\A w \in Workers, tok \in 1..MaxLinks :
         (tok <= Len(links) /\ now > links[tok].expires_at
            /\ verify_magic_link_validate(w, tok))
         => /\ response' = Err("verify_magic_link", "expired_or_used")
            /\ reqs' = reqs
            /\ links' = links
            /\ sessions' = sessions
            /\ issued' = issued]_vars

\* C3 witness: a request was refused although no link has been used, so it was
\* refused for an expired link.
C3_Witness ==
    /\ response = Err("verify_magic_link", "expired_or_used")
    /\ \E tok \in 1..Len(links) : now > links[tok].expires_at
    /\ \A tok \in 1..Len(links) : ~links[tok].is_used

\* C4: a magic-link request creates no MagicLink row whenever no active user
\* matches the email: no user has it, or the user who has it is deactivated.
C4_NoLinkWithoutActiveUser ==
    [][\A raw \in RawEmails, mailOk \in BOOLEAN :
         (~(users[lower(raw)].exists /\ users[lower(raw)].is_active)
            /\ request_magic_link(raw, mailOk))
         => (links' = links /\ ~response'.ok)]_vars

\* C5: a logout that presents the access token handed out by register, login
\* or magic-link redemption, authenticated as that user, deactivates the
\* session row created by that same call.
C5_LogoutDeactivatesItsSession ==
    [][\A i \in 1..Len(sessions) :
         (authenticated(issued[i].access) /\ logout(issued[i].access))
         => ~sessions'[i].is_active]_vars

\* C6: registering with an email that is already registered fails with the
\* uniqueness error, creates no user row and no session row, and leaves the
\* registered user unchanged.
C6_SecondRegistrationFails ==
    [][\A raw \in RawEmails, p \in Passwords, ph \in RegPhones :
         (users[lower(raw)].exists /\ register(raw, p, ph))
         => /\ response' = Err("register", "email_exists")
            /\ users' = users
            /\ sessions' = sessions
            /\ issued' = issued]_vars

\* C6 witness: a registration was refused for its email, the user of the first
\* registration and the session it was given being all there is.
C6_Witness ==
    /\ response = Err("register", "email_exists")
    /\ Cardinality({u \in Emails : users[u].exists}) = 1
    /\ Len(sessions) = 1

\* The well-formed phone numbers that belong to no user other than u
RequestablePhones(u) ==
    {raw \in RawPhones : /\ validate_phone_number(raw).ok
                         /\ ~phone_registered_to_other(u, validate_phone_number(raw).cleaned)}

\* now lies inside the cooldown window that began when the row was written
InCooldownWindow(v) == now < v.created_at + Minutes(CooldownMinutes)

\* C7: after a request was accepted at time t = created_at, every further
\* request by that user before t + 10 minutes is rejected with
\* cooldown_remaining > 0 and leaves the stored row unchanged, the status query
\* then reporting cooldown_active and not can_send; from t + 10 minutes on the
\* status query reports can_send and a new request is accepted.
C7_CooldownWindow ==
    [][\A u \in PhoneClients :
         /\ \A raw \in RequestablePhones(u), code \in Codes, smsOk \in BOOLEAN :
              (pv[u].exists /\ request_phone_verification(u, raw, code, smsOk))
              => IF InCooldownWindow(pv[u])
                   THEN /\ ~response'.ok
                        /\ response'.cooldown_remaining > 0
                        /\ pv'[u] = pv[u]
                 ELSE response'.ok
         /\ (pv[u].exists /\ phone_verification_cooldown(u))
              => IF InCooldownWindow(pv[u])
                   THEN response'.cooldown_active /\ ~response'.can_send
                 ELSE response'.can_send]_vars

\* The row can still be confirmed: not verified, not expired, attempts left
StillValid(v) == ~v.is_verified /\ now <= v.expires_at /\ v.attempts < v.max_attempts

\* C8: each wrong six-digit code submitted against a still-valid row increments
\* attempts by exactly one and fails; once max_attempts (3) wrong codes have
\* been counted every further confirmation fails, the correct code included,
\* and changes nothing.
C8_WrongCodesUseUpAttempts ==
    [][\A u \in PhoneClients, code \in Codes :
         (pv[u].exists /\ confirm_phone_verification(u, code))
         => /\ (StillValid(pv[u]) /\ code # pv[u].verification_code)
                 => (pv'[u].attempts = pv[u].attempts + 1 /\ ~response'.ok)
            /\ pv[u].attempts >= DefaultMaxAttempts
                 => (~response'.ok /\ pv' = pv /\ users' = users)]_vars

\* C8 witness: after three wrong codes the correct code was submitted in time
\* and was refused.
C8_Witness ==
    \E u \in PhoneClients :
        /\ pv[u].exists
        /\ pv[u].attempts = DefaultMaxAttempts
        /\ ~pv[u].is_verified
        /\ now <= pv[u].expires_at
        /\ response.op = "confirm_phone_verification"
        /\ ~response.ok
        /\ response.echo = pv[u].verification_code

\* C9: a confirmation carrying the stored code succeeds if and only if the row
\* is not verified, its expiry has not passed and attempts < max_attempts;
\* otherwise it fails and changes neither the attempt counter nor the user.
C9_CorrectCodeSucceedsIffValid ==
    [][\A u \in PhoneClients :
         (pv[u].exists /\ confirm_phone_verification(u, pv[u].verification_code))
         => /\ response'.ok <=> StillValid(pv[u])
            /\ ~response'.ok => (pv'[u].attempts = pv[u].attempts /\ users' = users)]_vars

\* C9 witness: the correct code was refused for the expiry alone.
C9_Witness ==
    \E u \in PhoneClients :
        /\ pv[u].exists
        /\ response.op = "confirm_phone_verification"
        /\ response.error = "expired"
        /\ response.echo = pv[u].verification_code
        /\ pv[u].attempts < pv[u].max_attempts
        /\ ~pv[u].is_verified
        /\ ~users[u].is_phone_verified

\* C10: a successful confirmation leaves the row verified with verified_at set
\* and the user with is_phone_verified and the row's phone number; a failed one
\* changes neither the row's is_verified flag nor any field of the user.
C10_ConfirmationEffects ==
    [][\A u \in PhoneClients, code \in SubmittedCodes :
         confirm_phone_verification(u, code)
         => IF response'.ok
              THEN /\ pv'[u].is_verified
                   /\ pv'[u].verified_at = now
                   /\ users'[u].is_phone_verified
                   /\ users'[u].phone = pv'[u].phone_number
                   /\ pv'[u].phone_number = pv[u].phone_number
            ELSE /\ pv'[u].is_verified = pv[u].is_verified
                 /\ users' = users]_vars

\* C10 witness: a confirmation succeeded for a number typed without the plus
\* sign, and the user carries the normalized number.
C10_Witness ==
    \E u \in PhoneClients :
        /\ response.op = "confirm_phone_verification"
        /\ response.ok
        /\ pv[u].is_verified
        /\ pv[u].verified_at # Null
        /\ users[u].is_phone_verified
        /\ users[u].phone = PhoneA

\* C11: in every reachable state each user has at most one phone-verification
\* row, also when requests of one user are handled concurrently.
C11_OneVerificationPerUser ==
    \A u \in Emails : Cardinality(verifications_of(u)) <= 1

\* C12: a request whose SMS dispatch fails is still answered with success and
\* leaves the row with the generated code in the table; a confirmation with
\* that code that follows it before the expiry has passed succeeds.
C12_SmsFailureKeepsTheCode ==
    [][\A u \in PhoneClients :
         /\ \A raw \in RawPhones, code \in Codes :
              (/\ response'.op = "request_phone_verification"
               /\ ~(pv[u].exists /\ InCooldownWindow(pv[u]))
               /\ raw \in RequestablePhones(u)
               /\ request_phone_verification(u, raw, code, FALSE))
              => /\ response'.ok
                 /\ pv'[u].exists
                 /\ pv'[u].verification_code = code
                 /\ pv'[u].phone_number = normalize_phone_number(raw)
         /\ (/\ response.op = "request_phone_verification"
             /\ response.error = "sms_error"
             /\ pv[u].exists
             /\ now <= pv[u].expires_at
             /\ confirm_phone_verification(u, pv[u].verification_code))
              => /\ response'.ok
                 /\ users'[u].is_phone_verified]_vars

\* C12 witness: the SMS of the last request failed, the request was answered
\* with success, and at the last instant of the validity window the row still
\* holds the code of that request.
C12_Witness ==
    \E u \in PhoneClients :
        /\ response.op = "request_phone_verification"
        /\ response.ok
        /\ response.error = "sms_error"
        /\ pv[u].exists
        /\ pv[u].verification_code \in Codes
        /\ PhoneVerification_is_valid(pv[u])
        /\ now = pv[u].expires_at

\* C13: remove-member aimed at a member whose role is owner is rejected and
\* changes no membership row, whoever among the owner and the admins calls;
\* and no step at all takes an owner's active row away.
C13_OwnerIsNeverRemoved ==
    [][/\ \A caller \in Emails, i \in 1..MaxInstances, user_id \in Emails :
            (/\ response'.op = "remove_member"
             /\ \E m \in members : m.instance = i /\ m.user = user_id /\ m.role = "owner"
             /\ remove_member(caller, i, user_id))
            => /\ ~response'.ok
               /\ members' = members
       /\ \A m \in members : (m.role = "owner" /\ m.is_active) => m \in members']_vars

\* C13 witness: a caller entitled to remove members asked for the owner's
\* removal and was refused, the instance having a second active member.
C13_Witness ==
    /\ response.op = "remove_member"
    /\ response.error = "cannot_remove_owner"
    /\ \E m \in members : m.role = "admin" /\ m.is_active
    /\ \A m \in members : m.role = "owner" => m.is_active

\* C14: no instance is persisted without exactly one owner membership, except
\* while the request that inserted it is still about to create that row: a
\* failed membership creation takes the instance row back.
C14_InstanceHasItsOwner ==
    \A i \in 1..Len(instances) :
        \/ \E w \in Workers : creates[w].pc = "member" /\ creates[w].instance = i
        \/ Cardinality({m \in members : m.instance = i /\ m.role = "owner"}) = 1

\* C15: no two persisted instances have the same slug, in every reachable
\* state of interleaved creations.
C15_SlugsAreUnique ==
    \A i, j \in 1..Len(instances) : i # j => instances[i].slug # instances[j].slug

\* C15 witness: two creations ran into each other, the unique column refused
\* the later INSERT, and an instance holds the slug they competed for.
C15_Witness ==
    /\ response.op = "create_instance"
    /\ response.error = "integrity_error"
    /\ Len(instances) >= 1

\* C16: of two creations with the same name neither fails, also when they are
\* interleaved, and the two instances carry the slugified name and the
\* slugified name with the suffix -1.
C16_SameNameBothPersist ==
    /\ [](\A i, j \in 1..Len(instances) :
            (i < j /\ instances[i].name = instances[j].name)
            => /\ instances[i].slug = slugify(instances[i].name)
               /\ instances[j].slug = suffixed(slugify(instances[j].name), 1))
    /\ [][\A w \in Workers :
            (/\ \E i \in 1..Len(instances) : instances[i].name = creates[w].name
             /\ Instance_save_insert(w))
            => Len(instances') = Len(instances) + 1]_vars

\* The caller has a membership row of the instance with a role that manages menus
manages_menus(u, i) ==
    \E m \in members : m.instance = i /\ m.user = u /\ m.role \in {"owner", "admin", "manager"}

\* The caller's membership row of the instance has the role staff
is_staff(u, i) ==
    \E m \in members : m.instance = i /\ m.user = u /\ m.role = "staff"

\* C17: a menu or a section is created or deleted only for a caller whose role
\* in the owning instance is owner, admin or manager; a staff caller is
\* refused in all four operations and menus and sections stay as they are.
C17_MenusNeedManagerRole ==
    [][\A caller \in Emails :
         /\ \A i \in 1..Len(instances) :
              create_menu(caller, i)
              => /\ response'.ok => manages_menus(caller, i)
                 /\ is_staff(caller, i) => (~response'.ok /\ menus' = menus)
         /\ \A m \in Menu_ids :
              (destroy_menu(caller, m) \/ create_section(caller, m))
              => /\ response'.ok => manages_menus(caller, menus[m].instance)
                 /\ is_staff(caller, menus[m].instance)
                      => (~response'.ok /\ menus' = menus /\ sections' = sections)
         /\ \A s \in MenuSection_ids :
              destroy_section(caller, s)
              => /\ response'.ok => manages_menus(caller, section_instance(s))
                 /\ is_staff(caller, section_instance(s))
                      => (~response'.ok /\ sections' = sections)]_vars

\* The user's membership row of the instance has been deactivated
deactivated(u, i) ==
    \E m \in members : m.instance = i /\ m.user = u /\ ~m.is_active

\* C18: once remove-member has deactivated a user's membership of an instance,
\* no creation or deletion of a menu, section or item of that instance by that
\* user succeeds, whatever the role of the deactivated row.
C18_DeactivatedMemberCannotMutate ==
    [][\A u \in Emails :
         (\/ \E i \in 1..Len(instances) : deactivated(u, i) /\ create_menu(u, i)
          \/ \E m \in Menu_ids :
                /\ deactivated(u, menus[m].instance)
                /\ (destroy_menu(u, m) \/ create_section(u, m))
          \/ \E s \in MenuSection_ids :
                /\ deactivated(u, section_instance(s))
                /\ (destroy_section(u, s) \/ create_item(u, s)))
         => /\ ~response'.ok
            /\ menus' = menus /\ sections' = sections /\ items' = items]_vars

\* The caller holds an active membership of the instance as owner or admin
may_manage_members(u, i) ==
    \E m \in members :
        m.instance = i /\ m.user = u /\ m.is_active /\ m.role \in {"owner", "admin"}

\* C19: invite-member and remove-member change membership rows only for a
\* caller with an active owner or admin membership of the instance: a call
\* that succeeds or changes a membership row is never the call of a manager,
\* a staff member, a deactivated member or a non-member.
C19_OnlyOwnerOrAdminManageMembers ==
    [][\A caller \in Emails, i \in 1..MaxInstances :
         (/\ response'.op \in {"invite_member", "remove_member"}
          /\ (response'.ok \/ members' # members)
          /\ \/ \E raw \in RawEmails, role \in Roles : invite_member(caller, i, raw, role)
             \/ \E user_id \in UserIds : remove_member(caller, i, user_id))
         => may_manage_members(caller, i)]_vars

\* C19 witness: remove-member was refused for want of the role, the table
\* holding an active manager or staff member.
C19_Witness ==
    /\ response.op = "remove_member"
    /\ response.error = "forbidden"
    /\ \E m \in members : m.is_active /\ m.role \in {"manager", "staff"}

\* C20: a request accepted while the user has a row overwrites code, expiry
\* and phone number, sets attempts to 0 and is_verified to false and puts
\* created_at at the time of the request; a user whose attempts are used up
\* is accepted once the cooldown is over and the row is valid again with all
\* of max_attempts tries.
C20_RequestOverwritesTheRow ==
    [][\A u \in PhoneClients, raw \in RawPhones, code \in Codes, smsOk \in BOOLEAN :
         /\ (/\ response'.op = "request_phone_verification"
             /\ response'.ok
             /\ pv[u].exists
             /\ request_phone_verification(u, raw, code, smsOk))
              => /\ pv'[u].verification_code = code
                 /\ pv'[u].expires_at = now + Minutes(CodeExpiryMinutes)
                 /\ pv'[u].attempts = 0
                 /\ ~pv'[u].is_verified
                 /\ pv'[u].created_at = now
                 /\ pv'[u].max_attempts = pv[u].max_attempts
         /\ (/\ pv[u].exists
             /\ pv[u].attempts >= pv[u].max_attempts
             /\ ~InCooldownWindow(pv[u])
             /\ raw \in RequestablePhones(u)
             /\ request_phone_verification(u, raw, code, smsOk))
              => /\ response'.ok
                 /\ PhoneVerification_is_valid(pv'[u])
                 /\ pv'[u].max_attempts - pv'[u].attempts = DefaultMaxAttempts]_vars

\* C20 witness: a request was accepted on a row that had been confirmed
\* before: the row keeps verified_at and is unverified with no attempts, its
\* cooldown running from now.
C20_Witness ==
    \E u \in PhoneClients :
        /\ response.op = "request_phone_verification"
        /\ response.ok
        /\ pv[u].exists
        /\ pv[u].verified_at # Null
        /\ ~pv[u].is_verified
        /\ pv[u].attempts = 0
        /\ pv[u].created_at = now
        /\ now >= Minutes(CooldownMinutes)

\* C21..C30

\* Two stored tickets carry one ticket number
duplicate_ticket_number ==
    \E j, k \in SupportTicket_ids : j # k /\ tickets[j].ticket_number = tickets[k].ticket_number

\* C22 as stated: a creation that took its number from the same last ticket as
\* a creation stored in the meantime is stored too, so that two stored tickets
\* carry one ticket number.
C22_BothStoredWithOneNumber ==
    [][\A w \in Workers :
         (/\ tks[w].pc = "insert"
          /\ ticket_number_exists(tks[w].ticket_number)
          /\ SupportTicket_save_insert(w))
         => duplicate_ticket_number']_vars

\* C22 as amended: two interleaved creations that read the same last ticket
\* compute the same number, but the INSERT of the second is refused with an
\* integrity error and stores nothing, so that no two stored tickets ever carry
\* the same ticket number.
C22_SecondInsertIsRefused ==
    /\ [](~duplicate_ticket_number)
    /\ [][\A w \in Workers :
            (/\ tks[w].pc = "insert"
             /\ ticket_number_exists(tks[w].ticket_number)
             /\ SupportTicket_save_insert(w))
            => /\ tickets' = tickets
               /\ ~response'.ok
               /\ response'.error = "integrity_error"]_vars

\* A creation has just been refused for its number while a ticket is stored
C22_Witness ==
    /\ response.op = "create_ticket"
    /\ response.error = "integrity_error"
    /\ SupportTicket_ids # {}

\* C23: when the mail with the magic link cannot be sent, request-magic-link
\* answers with an error response or a degraded success of its own; the
\* failure never leaves the handler as an unhandled exception.
C23_MailFailureIsHandled ==
    [][\A raw \in RawEmails :
         (request_link_email_known(raw) /\ request_magic_link(raw, FALSE))
         => response'.error # "unhandled_exception"]_vars

\* C26: the cooldown status query is read-only: it leaves the caller's
\* verification row and user row as they were, so that a row is marked
\* verified only by the confirmation of a correct code.
C26_CooldownQueryIsReadOnly ==
    [][\A u \in PhoneClients :
         phone_verification_cooldown(u) => pv'[u] = pv[u] /\ users'[u] = users[u]]_vars

\* C27: for any one issued code, the wrong guesses compared with it never
\* number more than its max_attempts, however confirmations are interleaved.
C27_GuessesWithinMaxAttempts ==
    \A key \in DOMAIN guesses : guesses[key] <= DefaultMaxAttempts

\* C24: no two distinct users are both phone-verified with the same phone; in
\* particular, of two users who each asked for a code for one number before
\* either confirmed, not both complete the verification.
C24_VerifiedPhonesAreDistinct ==
    \A u, o \in Emails :
        (/\ u # o
         /\ users[u].exists /\ users[o].exists
         /\ users[u].is_phone_verified /\ users[o].is_phone_verified)
        => users[u].phone # users[o].phone

\* C25: the phone of a phone-verified user is a number that user confirmed
\* with a code: the phone of a user who stays or becomes verified changes only
\* in the confirmation of a code, and to the number that code was sent to.
C25_VerifiedPhoneWasConfirmed ==
    [][\A u \in Emails :
         (/\ users[u].exists
          /\ users'[u].is_phone_verified
          /\ users'[u].phone # users[u].phone)
         => /\ response'.op = "confirm_phone_verification"
            /\ response'.ok
            /\ users'[u].phone = pv[u].phone_number]_vars

\* The menus, sections and items that belong to instance i, each section with
\* its menu and each item with its section
menu_tree(i) ==
    [menus |-> {m \in Menu_ids : menus[m].instance = i},
     sections |-> {<<s, sections[s].menu>> : s \in {t \in MenuSection_ids : section_instance(t) = i}},
     items |-> {<<k, items[k].section>> : k \in {j \in MenuItem_ids : item_instance(j) = i}}]

\* C28: no request by a user who has never held a membership in instance I
\* adds, changes, moves or deletes a menu, section or item of I, also not an
\* update that re-parents a section or item of the caller's own instance onto a
\* menu or section of I.
C28_StrangerLeavesMenusAlone ==
    [][\A u \in Emails, i \in Instance_ids :
         (/\ ~already_member(i, u)
          /\ \/ create_menu(u, i)
             \/ \E m \in 1..MaxMenus : create_section(u, m) \/ destroy_menu(u, m)
             \/ \E s \in 1..MaxSections : create_item(u, s)
             \/ \E s \in 1..MaxSections, m \in 1..MaxMenus : update_section(u, s, m)
             \/ \E k \in 1..MaxItems, s \in 1..MaxSections : update_item(u, k, s))
         => menu_tree(i)' = menu_tree(i)]_vars

\* C29: replacing the business hours is all-or-nothing: a PUT that is refused,
\* for an entry that fails validation or for lack of role, leaves the stored
\* hours of the instance exactly as they were.
C29_RefusedPutKeepsTheHours ==
    [][\A caller \in Emails, i \in 1..MaxInstances, body \in HoursBodies :
         (/\ response'.op = "business_hours"
          /\ ~response'.ok
          /\ business_hours(caller, i, body))
         => hours' = hours]_vars

\* The membership rows of instance i
members_of(i) == {m \in members : m.instance = i}

\* C21: the deletion of a user deletes every instance in which that user has
\* an owner membership, whatever other members it has; an instance in which
\* the user is only admin, manager or staff stays stored and loses only that
\* user's membership row.
C21_DeletionTakesOwnedInstances ==
    [][\A u \in Emails :
         (/\ response'.op = "delete_user"
          /\ users[u].exists
          /\ delete_user(u))
         => \A i \in Instance_ids :
              IF \E m \in members_of(i) : m.user = u /\ m.role = "owner"
                THEN /\ i \notin Instance_ids'
                     /\ members_of(i)' = {}
              ELSE /\ i \in Instance_ids'
                   /\ instances'[i] = instances[i]
                   /\ members_of(i)' = {m \in members_of(i) : m.user # u}]_vars

\* A user has just been deleted: an instance is gone with its members, and
\* another instance is still stored with a member
C21_Witness ==
    /\ response.op = "delete_user"
    /\ \E i \in 1..Len(instances) : instances[i].deleted /\ members_of(i) = {}
    /\ \E j \in Instance_ids : members_of(j) # {}

\* The owner rows of instance i
owners_of(i) == {m \in members_of(i) : m.role = "owner"}

\* C30: every stored instance created through the API has exactly one owner
\* membership, active and held by its creator: inviting never grants the owner
\* role, removing never deactivates it, and no sequence of creations,
\* invitations and removals yields a second owner or an inactive one.
C30_ExactlyOneActiveOwner ==
    /\ [](\A i \in Instance_ids :
            (\A w \in Workers : ~(creates[w].pc = "member" /\ creates[w].instance = i))
            => /\ Cardinality(owners_of(i)) = 1
               /\ \A m \in owners_of(i) : m.is_active)
    /\ [][\A m \in members' \ members :
            m.role = "owner"
            => /\ response'.op = "create_instance"
               /\ \E w \in Workers : creates[w].pc = "member" /\ creates[w].user = m.user
                                     /\ creates[w].instance = m.instance]_vars

=============================================================================
